---- MODULE Spec2Model ----
(* Lifecycle state machine of weaveenv.plugins: PluginState, the six       *)
(* StateHooks and the PluginManager that threads every operation through   *)
(* the ordered hook list.  Each manager operation is one atomic action; it *)
(* folds the hook callbacks over a "world" record holding the in-memory    *)
(* plugin states, the disk, the persistent store, the bus and the          *)
(* supervised processes.                                                   *)
EXTENDS Integers, Sequences, FiniteSets, TLC

(* ---------------------------------------------------------------------- *)
(* Bounds                                                                  *)
(* ---------------------------------------------------------------------- *)
MaxRowId == 2
MaxProc == 2
MaxClients == 1

(* ---------------------------------------------------------------------- *)
(* Universe: urls, the lister, the remote repositories                     *)
(* ---------------------------------------------------------------------- *)
(* Results the lister_fn given to the constructor can produce.             *)
ListerResults == {<<"u1">>}

(* A lister that yields two plugins and repeats one of them.               *)
ManyListerResults == {<<"u1", "u2", "u1">>}

Urls == {"u1", "u2"}

url_to_plugin_id == [u \in Urls |-> IF u = "u1" THEN "h1" ELSE "h2"]

PluginIds == {url_to_plugin_id[u] : u \in Urls}

VALID_CLASSES == {"http", "dashboard", "datastore"}

DefaultStartTimeout == 30

(* Content of the remote repository behind each plugin id: the declared    *)
(* start_timeout (0 when plugin.json does not declare one), the exported   *)
(* and required rpc classes and whether a requirements.txt is present.     *)
RemoteRepo == [i \in PluginIds |->
    IF i = "h1"
    THEN [start_timeout |-> 10, exported_rpc_classes |-> {"http"},
          required_rpc_classes |-> {"datastore"}, requirements |-> TRUE]
    ELSE [start_timeout |-> 0, exported_rpc_classes |-> {"bogus"},
          required_rpc_classes |-> {}, requirements |-> FALSE]]

NoneStr == "None"

BlankToken == " "

(* What register_plugin can do: issue a new token, answer with a blank    *)
(* one, or fail.                                                           *)
RegisterOutcomes == {"token", BlankToken, NoneStr, "FAIL"}

NoErr == [type |-> "", msg |-> ""]

NoDbPlugin == [exists |-> FALSE, pk |-> 0, enabled |-> FALSE]

NoInfo == [returned |-> FALSE, installed |-> FALSE, enabled |-> FALSE, active |-> FALSE]

(* ---------------------------------------------------------------------- *)
(* State                                                                   *)
(* ---------------------------------------------------------------------- *)
VARIABLES
    plugin_states,  \* PluginManager.plugin_states: plugin id -> PluginState
    dirs,           \* plugin ids whose installed_dir exists on disk
    venvs,          \* plugin ids whose virtualenv directory exists on disk
    reqs,           \* plugin ids whose virtualenv got requirements installed
    rows,           \* PluginData rows of this machine in the store
    registered,     \* urls registered with the messaging server
    procs,          \* running supervised processes: [pid, plugin]
    client,         \* MessagingRegistrationHook.client (0 = None)
    clients,        \* rpc clients started and not stopped
    listed,         \* urls produced by PluginManager.lister_fn, in order
    hooks,          \* PluginManager.hooks
    last,           \* observation of the last manager call
    lifecycle,      \* calls of the full lifecycle sequence made in a row so far
    toggles,        \* calls of enable; disable; enable made in a row so far
    roundtrip,      \* calls of deactivate; activate made in a row on an active plugin
    instance        \* LocalWeaveInstance: its helper, its wrapper, its 'stopped' event

manager_vars == <<plugin_states, dirs, venvs, reqs, rows, registered, procs, client, clients,
                  listed, hooks, last, lifecycle, toggles, roundtrip>>

vars == <<plugin_states, dirs, venvs, reqs, rows, registered, procs, client, clients, listed,
          hooks, last, lifecycle, toggles, roundtrip, instance>>

(* PluginState(name, description, remote_url) with the dataclass defaults. *)
PluginState(url) ==
    [remote_url |-> url,
     installed_dir |-> NoneStr,
     db_plugin |-> NoDbPlugin,
     active |-> FALSE,
     token |-> NoneStr,
     venv |-> NoneStr,
     service |-> 0,
     start_timeout |-> DefaultStartTimeout,
     exported_rpc_classes |-> {},
     required_rpc_classes |-> {},
     app_manager_client |-> 0]

enabled(s) == s.db_plugin.exists /\ s.db_plugin.enabled

VirtualEnvManager_is_installed(w, s) == s.venv \in w.venvs

installed(w, s) == s.installed_dir \in w.dirs /\ VirtualEnvManager_is_installed(w, s)

Raise(w, type, msg) == [w EXCEPT !.err = [type |-> type, msg |-> msg]]

Fx(w, name) == [w EXCEPT !.fx = Append(@, name)]

(* info(): raises AttributeError when load never set installed_dir/venv.   *)
info(w, i) ==
    LET s == w.ps[i] IN
    IF s.installed_dir = NoneStr \/ (s.installed_dir \in w.dirs /\ s.venv = NoneStr)
    THEN NoInfo
    ELSE [returned |-> TRUE, installed |-> installed(w, s),
          enabled |-> enabled(s), active |-> s.active]

(* ---------------------------------------------------------------------- *)
(* peewee model operations on PluginData (unique on app_url per machine)   *)
(* ---------------------------------------------------------------------- *)
(* Primary key of the next inserted row: one more than the largest one in  *)
(* the table (integer primary key without autoincrement).                  *)
NextPk(rs) ==
    IF rs = {} THEN 1
    ELSE 1 + (CHOOSE n \in {r.pk : r \in rs} : \A r \in rs : r.pk <= n)

(* INSERT of the in-memory record of plugin i; IntegrityError on a         *)
(* duplicate (app_url, machine).                                           *)
Model_insert(w, i, e) ==
    LET s == w.ps[i] IN
    IF \E r \in w.rows : r.app_url = s.remote_url
    THEN Raise(w, "IntegrityError", "UNIQUE constraint failed")
    ELSE Fx([w EXCEPT !.rows = @ \cup {[pk |-> NextPk(w.rows), app_url |-> s.remote_url,
                                        enabled |-> s.db_plugin.enabled]},
                      !.ps[i].db_plugin.pk = NextPk(w.rows),
                      !.capped = @ \/ NextPk(w.rows) > MaxRowId], "db_insert")

(* UPDATE ... WHERE id = pk: rewrites every field of the row with that pk. *)
Model_update(w, i) ==
    LET s == w.ps[i]
        hit == {r \in w.rows : r.pk = s.db_plugin.pk}
    IN  IF hit = {} THEN Fx(w, "db_update")
        ELSE IF \E r \in w.rows \ hit : r.app_url = s.remote_url
        THEN Raise(w, "IntegrityError", "UNIQUE constraint failed")
        ELSE Fx([w EXCEPT !.rows = (@ \ hit) \cup {[pk |-> s.db_plugin.pk,
                                                    app_url |-> s.remote_url,
                                                    enabled |-> s.db_plugin.enabled]}],
                "db_update")

(* Model.save(): INSERT when forced or when the primary key is unset.      *)
Model_save(w, i, e, force_insert) ==
    IF force_insert \/ w.ps[i].db_plugin.pk = 0
    THEN Model_insert(w, i, e)
    ELSE Model_update(w, i)

Model_delete_instance(w, i) ==
    Fx([w EXCEPT !.rows = {r \in @ : r.pk # w.ps[i].db_plugin.pk}], "db_delete")

(* ---------------------------------------------------------------------- *)
(* load_plugin_json(install_path, load_service=False)                      *)
(* ---------------------------------------------------------------------- *)
load_plugin_json_error(w, d) ==
    IF d \notin w.dirs THEN "Error opening plugin.json."
    ELSE IF RemoteRepo[d].exported_rpc_classes \ VALID_CLASSES # {}
    THEN "Invalid rpc_class exported."
    ELSE IF RemoteRepo[d].required_rpc_classes \ VALID_CLASSES # {}
    THEN "Invalid dependencies."
    ELSE ""

(* What load_plugin_json does to sys.path once plugin.json was read: with  *)
(* load_service the install path is appended and popped again around the   *)
(* import, and the finally clause of the enclosing try pops the last entry *)
(* in either case. Nothing is touched when plugin.json cannot be opened.   *)
load_plugin_json_path(w, d, load_service) ==
    IF d \notin w.dirs THEN w
    ELSE LET w1 == IF load_service THEN Fx(Fx(w, "path_append"), "path_pop") ELSE w
         IN  Fx(w1, "path_pop")

load_plugin_json(d) ==
    [start_timeout |-> IF RemoteRepo[d].start_timeout = 0 THEN DefaultStartTimeout
                       ELSE RemoteRepo[d].start_timeout,
     exported_rpc_classes |-> RemoteRepo[d].exported_rpc_classes,
     required_rpc_classes |-> RemoteRepo[d].required_rpc_classes]

(* ---------------------------------------------------------------------- *)
(* VirtualEnvManager                                                       *)
(* ---------------------------------------------------------------------- *)
(* Variant: the environment is created anew on every call.                 *)
VirtualEnvManager_install_recreating(w, v, requirements_is_file, e) ==
    LET w1 == Fx([w EXCEPT !.venvs = @ \cup {v}, !.reqs = @ \ {v}], "venv_create")
    IN  IF ~requirements_is_file THEN w1
        ELSE IF e.pip THEN Fx([w1 EXCEPT !.reqs = @ \cup {v}], "pip")
        ELSE Fx(w1, "pip_failed")

(* What install returns: False only when pip ran and failed.               *)
VirtualEnvManager_install_returns(requirements_is_file, e) ==
    ~requirements_is_file \/ e.pip

VirtualEnvManager_install(w, v, requirements_is_file, e) ==
    LET w1 == IF v \in w.venvs THEN w
              ELSE Fx([w EXCEPT !.venvs = @ \cup {v}], "venv_create")
    IN  IF ~requirements_is_file THEN w1
        ELSE IF e.pip THEN Fx([w1 EXCEPT !.reqs = @ \cup {v}], "pip")
        ELSE Fx(w1, "pip_failed")

(* Variant: rmtree without the FileNotFoundError handler.                  *)
VirtualEnvManager_clean_unguarded(w, v) ==
    IF v \in w.venvs
    THEN Fx([w EXCEPT !.venvs = @ \ {v}, !.reqs = @ \ {v}], "rmtree_venv")
    ELSE Raise(w, "FileNotFoundError", "venv_home")

VirtualEnvManager_clean(w, v) ==
    IF v \in w.venvs
    THEN Fx([w EXCEPT !.venvs = @ \ {v}, !.reqs = @ \ {v}], "rmtree_venv")
    ELSE w

(* ---------------------------------------------------------------------- *)
(* VirtualEnvHook                                                          *)
(* ---------------------------------------------------------------------- *)
VirtualEnvHook_load(w, i, e) == [w EXCEPT !.ps[i].venv = i]

VirtualEnvHook_on_install(w, i, e) ==
    LET s == w.ps[i] IN
    IF s.installed_dir = NoneStr THEN Raise(w, "TypeError", "NoneType / str")
    ELSE IF s.venv = NoneStr THEN Raise(w, "AttributeError", "venv is None")
    ELSE VirtualEnvManager_install(w, s.venv,
            s.installed_dir \in w.dirs /\ RemoteRepo[s.installed_dir].requirements, e)

VirtualEnvHook_after_install(w, i, e) ==
    LET s == w.ps[i] IN
    IF s.venv = NoneStr THEN Raise(w, "AttributeError", "venv is None")
    ELSE IF ~VirtualEnvManager_is_installed(w, s)
    THEN Raise(w, "InternalError", "VirtualEnv directory not found.")
    ELSE w

VirtualEnvHook_on_uninstall(w, i, e) ==
    LET s == w.ps[i] IN
    IF s.venv = NoneStr THEN Raise(w, "AttributeError", "venv is None")
    ELSE VirtualEnvManager_clean(w, s.venv)

VirtualEnvHook_before_enable(w, i, e) ==
    LET s == w.ps[i] IN
    IF s.venv = NoneStr THEN Raise(w, "AttributeError", "venv is None")
    ELSE IF ~VirtualEnvManager_is_installed(w, s)
    THEN Raise(w, "PluginLoadError", "VirtualEnv not installed.")
    ELSE w

(* ---------------------------------------------------------------------- *)
(* PluginFilesStateHook                                                    *)
(* ---------------------------------------------------------------------- *)
(* Variant: installed_dir is left unset.                                   *)
PluginFilesStateHook_load_unset(w, i, e) == w

PluginFilesStateHook_load(w, i, e) == [w EXCEPT !.ps[i].installed_dir = i]

PluginFilesStateHook_on_install(w, i, e) ==
    LET s == w.ps[i]
        w1 == IF s.installed_dir \in w.dirs
              THEN Fx([w EXCEPT !.dirs = @ \ {s.installed_dir}], "rmtree_dir")
              ELSE w
    IN  IF s.installed_dir = NoneStr THEN Raise(w, "AttributeError", "installed_dir is None")
        ELSE IF e.clone THEN Fx([w1 EXCEPT !.dirs = @ \cup {s.installed_dir}], "clone")
        ELSE Raise(Fx(w1, "clone_failed"), "GitCommandError", "clone failed")

PluginFilesStateHook_after_install(w, i, e) ==
    LET s == w.ps[i] IN
    IF s.installed_dir = NoneStr THEN Raise(w, "AttributeError", "installed_dir is None")
    ELSE IF s.installed_dir \notin w.dirs
    THEN Raise(w, "InternalError", "Unable to install plugin.")
    ELSE w

PluginFilesStateHook_on_uninstall(w, i, e) ==
    LET s == w.ps[i] IN
    IF s.installed_dir = NoneStr THEN Raise(w, "AttributeError", "installed_dir is None")
    ELSE IF s.installed_dir \in w.dirs
    THEN Fx([w EXCEPT !.dirs = @ \ {s.installed_dir}], "rmtree_dir")
    ELSE w

(* Variant: the directory check is missing.                                *)
PluginFilesStateHook_before_enable_unguarded(w, i, e) == w

PluginFilesStateHook_before_enable(w, i, e) ==
    LET s == w.ps[i] IN
    IF s.installed_dir = NoneStr THEN Raise(w, "AttributeError", "installed_dir is None")
    ELSE IF s.installed_dir \notin w.dirs
    THEN Raise(w, "PluginLoadError", "Plugin not installed.")
    ELSE w

PluginFilesStateHook_before_activate(w, i, e) == PluginFilesStateHook_before_enable(w, i, e)

(* ---------------------------------------------------------------------- *)
(* PluginJsonHook                                                          *)
(* ---------------------------------------------------------------------- *)
PluginJsonHook_before_activate(w, i, e) ==
    LET s == w.ps[i]
        msg == load_plugin_json_error(w, s.installed_dir)
        res == load_plugin_json(s.installed_dir)
    IN  IF s.installed_dir = NoneStr THEN Raise(w, "TypeError", "join on None")
        ELSE IF msg # ""
        THEN Raise(load_plugin_json_path(Fx(w, "parse_manifest"), s.installed_dir, FALSE),
                   "PluginLoadError", msg)
        ELSE load_plugin_json_path(
                 Fx([w EXCEPT !.ps[i].start_timeout = res.start_timeout,
                              !.ps[i].exported_rpc_classes = res.exported_rpc_classes,
                              !.ps[i].required_rpc_classes = res.required_rpc_classes],
                    "parse_manifest"),
                 s.installed_dir, FALSE)

(* ---------------------------------------------------------------------- *)
(* PluginDBHook                                                            *)
(* ---------------------------------------------------------------------- *)
PluginDBHook_load(w, i, e) ==
    LET hit == {r \in w.rows : r.app_url = w.ps[i].remote_url} IN
    IF hit = {} THEN w
    ELSE LET p == CHOOSE r \in hit : TRUE IN
         [w EXCEPT !.ps[i].db_plugin = [exists |-> TRUE, pk |-> p.pk, enabled |-> p.enabled]]

PluginDBHook_on_install(w, i, e) ==
    LET w1 == [w EXCEPT !.ps[i].db_plugin = [exists |-> TRUE, pk |-> 0, enabled |-> FALSE]]
        w2 == Model_save(w1, i, e, TRUE)
    IN  IF w2.err.type = "IntegrityError" THEN w1 ELSE w2

PluginDBHook_on_uninstall(w, i, e) ==
    IF ~w.ps[i].db_plugin.exists THEN w
    ELSE Model_delete_instance(w, i)

PluginDBHook_on_enable(w, i, e) ==
    IF ~w.ps[i].db_plugin.exists THEN Raise(w, "AttributeError", "db_plugin is None")
    ELSE Model_save([w EXCEPT !.ps[i].db_plugin.enabled = TRUE], i, e, FALSE)

(* Variant: the flag is persisted without being cleared.                   *)
PluginDBHook_on_disable_keeps_flag(w, i, e) ==
    IF ~w.ps[i].db_plugin.exists THEN Raise(w, "AttributeError", "db_plugin is None")
    ELSE Model_save(w, i, e, FALSE)

PluginDBHook_on_disable(w, i, e) ==
    IF ~w.ps[i].db_plugin.exists THEN Raise(w, "AttributeError", "db_plugin is None")
    ELSE Model_save([w EXCEPT !.ps[i].db_plugin.enabled = FALSE], i, e, FALSE)

(* ---------------------------------------------------------------------- *)
(* MessagingRegistrationHook                                               *)
(* ---------------------------------------------------------------------- *)
(* A token the server issues is new: none of the plugin states holds it.   *)
FreshToken(w) ==
    LET held == {w.ps[j].token : j \in DOMAIN w.ps} IN
    IF "t1" \notin held THEN "t1" ELSE "t2"

MessagingRegistrationHook_on_activate(w, i, e) ==
    IF w.client = NoneStr THEN Raise(w, "TypeError", "client is None")
    ELSE IF e.reg = "FAIL" THEN Raise(Fx(w, "register_failed"), "RPCError", "register_plugin failed")
    ELSE Fx([w EXCEPT !.ps[i].token = IF e.reg \in {BlankToken, NoneStr} THEN e.reg
                                      ELSE FreshToken(w),
                      !.registered = @ \cup {w.ps[i].remote_url}], "register")

MessagingRegistrationHook_on_deactivate(w, i, e) ==
    IF w.client = NoneStr THEN Raise(w, "TypeError", "client is None")
    ELSE IF ~e.unreg THEN Raise(Fx(w, "unregister_failed"), "RPCError", "unregister_plugin failed")
    ELSE Fx([w EXCEPT !.ps[i].token = NoneStr,
                      !.registered = @ \ {w.ps[i].remote_url}], "unregister")

MessagingRegistrationHook_load(w, i, e) ==
    LET w1 == Fx([w EXCEPT !.client = "started", !.clients = @ + 1,
                           !.ps[i].app_manager_client = 1], "client_start")
    IN  IF enabled(w1.ps[i]) THEN MessagingRegistrationHook_on_activate(w1, i, e) ELSE w1

MessagingRegistrationHook_stop(w) ==
    IF w.client = NoneStr THEN Raise(w, "AttributeError", "client is None")
    ELSE Fx([w EXCEPT !.client = "stopped",
                      !.clients = IF w.client = "started" THEN @ - 1 ELSE @], "client_stop")

(* ---------------------------------------------------------------------- *)
(* PluginExecutionStateHook                                                *)
(* ---------------------------------------------------------------------- *)
(* Identity of the BasePlugin object plugin i constructs: the least pid    *)
(* that is neither running nor referenced by another PluginState (0 when   *)
(* exhausted).                                                             *)
FreshPid(w, i) ==
    LET used == {pr.pid : pr \in w.procs} \cup {w.ps[j].service : j \in DOMAIN w.ps \ {i}}
        free == (1..MaxProc) \ used
    IN  IF free = {} THEN 0 ELSE CHOOSE n \in free : \A m \in free : n <= m

(* Variant: the process is not stopped when it is not ready in time.       *)
run_plugin_left_running(w, i, pid, e) ==
    Fx([w EXCEPT !.procs = @ \cup {[pid |-> pid, plugin |-> i]},
                 !.timeouts = Append(@, w.ps[i].start_timeout),
                 !.capped = @ \/ pid = 0], "proc_start")

(* run_plugin(service, plugin_state.start_timeout): start, wait_for_start  *)
(* with that timeout, stop when it elapses.                                *)
run_plugin(w, i, pid, e) ==
    LET w1 == Fx([w EXCEPT !.procs = @ \cup {[pid |-> pid, plugin |-> i]},
                           !.timeouts = Append(@, w.ps[i].start_timeout),
                           !.capped = @ \/ pid = 0], "proc_start")
    IN  IF e.ready THEN w1
        ELSE Fx([w1 EXCEPT !.procs = {pr \in @ : pr.pid # pid}], "proc_stop")

stop_plugin(w, pid) ==
    Fx([w EXCEPT !.procs = {pr \in @ : pr.pid # pid}], "proc_stop")

PluginExecutionStateHook_before_enable(w, i, e) ==
    IF ~info(w, i).returned THEN Raise(w, "AttributeError", "installed_dir is None")
    ELSE IF ~installed(w, w.ps[i]) THEN Raise(w, "PluginLoadError", "Plugin is not installed.")
    ELSE w

PluginExecutionStateHook_before_activate(w, i, e) ==
    LET w1 == PluginExecutionStateHook_before_enable(w, i, e) IN
    IF w1.err # NoErr THEN w1
    ELSE IF ~enabled(w.ps[i]) THEN Raise(w, "PluginLoadError", "Plugin is not enabled.")
    ELSE w

(* Variant: the token check is missing.                                    *)
PluginExecutionStateHook_on_activate_unchecked(w, i, e) ==
    LET pid == FreshPid(w, i)
        w1 == run_plugin(w, i, pid, e)
    IN  IF ~e.ready THEN Raise(w1, "PluginLoadError", "Unable to start the plugin.")
        ELSE [w1 EXCEPT !.ps[i].service = pid]

PluginExecutionStateHook_on_activate(w, i, e) ==
    LET s == w.ps[i]
        pid == FreshPid(w, i)
        w1 == run_plugin(w, i, pid, e)
    IN  IF s.token = NoneStr \/ s.token = BlankToken
        THEN Raise(w, "InternalError", "Not registered with messaging server.")
        ELSE IF ~e.ready THEN Raise(w1, "PluginLoadError", "Unable to start the plugin.")
        ELSE [w1 EXCEPT !.ps[i].service = pid]

PluginExecutionStateHook_after_activate(w, i, e) == [w EXCEPT !.ps[i].active = TRUE]

PluginExecutionStateHook_on_deactivate(w, i, e) ==
    IF w.ps[i].service = 0 THEN Raise(w, "AttributeError", "service is None")
    ELSE [stop_plugin(w, w.ps[i].service) EXCEPT !.ps[i].active = FALSE]

(* Variant: the active check is missing.                                   *)
PluginExecutionStateHook_before_disable_unguarded(w, i, e) == w

PluginExecutionStateHook_before_disable(w, i, e) ==
    IF w.ps[i].active THEN Raise(w, "PluginLoadError", "Plugin must be stopped first.")
    ELSE w

(* Variant: the enabled check comes before the active check.               *)
PluginExecutionStateHook_before_uninstall_enabled_first(w, i, e) ==
    IF enabled(w.ps[i]) THEN Raise(w, "PluginLoadError", "Must disable the plugin first.")
    ELSE PluginExecutionStateHook_before_disable(w, i, e)

PluginExecutionStateHook_before_uninstall(w, i, e) ==
    LET w1 == PluginExecutionStateHook_before_disable(w, i, e) IN
    IF w1.err # NoErr THEN w1
    ELSE IF enabled(w.ps[i]) THEN Raise(w, "PluginLoadError", "Must disable the plugin first.")
    ELSE w

PluginExecutionStateHook_load(w, i, e) ==
    IF w.ps[i].service = 0 /\ enabled(w.ps[i])
    THEN LET w1 == PluginExecutionStateHook_before_activate(w, i, e)
             w2 == IF w1.err # NoErr THEN w1 ELSE PluginExecutionStateHook_on_activate(w1, i, e)
         IN  IF w2.err # NoErr THEN w2 ELSE PluginExecutionStateHook_after_activate(w2, i, e)
    ELSE w

(* ---------------------------------------------------------------------- *)
(* StateHook dispatch: a callback a hook class does not override is the    *)
(* inherited no-op of StateHook                                            *)
(* ---------------------------------------------------------------------- *)
StateHook_noop(w, i, e) == w

HookCallback(h, phase, op, w, i, e) ==
    LET cb == <<h, phase, op>> IN
    CASE cb = <<"venv", "on", "install">> -> VirtualEnvHook_on_install(w, i, e)
      [] cb = <<"venv", "after", "install">> -> VirtualEnvHook_after_install(w, i, e)
      [] cb = <<"venv", "on", "uninstall">> -> VirtualEnvHook_on_uninstall(w, i, e)
      [] cb = <<"venv", "before", "enable">> -> VirtualEnvHook_before_enable(w, i, e)
      [] cb = <<"files", "on", "install">> -> PluginFilesStateHook_on_install(w, i, e)
      [] cb = <<"files", "after", "install">> -> PluginFilesStateHook_after_install(w, i, e)
      [] cb = <<"files", "on", "uninstall">> -> PluginFilesStateHook_on_uninstall(w, i, e)
      [] cb = <<"files", "before", "enable">> -> PluginFilesStateHook_before_enable(w, i, e)
      [] cb = <<"files", "before", "activate">> -> PluginFilesStateHook_before_activate(w, i, e)
      [] cb = <<"db", "on", "install">> -> PluginDBHook_on_install(w, i, e)
      [] cb = <<"db", "on", "uninstall">> -> PluginDBHook_on_uninstall(w, i, e)
      [] cb = <<"db", "on", "enable">> -> PluginDBHook_on_enable(w, i, e)
      [] cb = <<"db", "on", "disable">> -> PluginDBHook_on_disable(w, i, e)
      [] cb = <<"json", "before", "activate">> -> PluginJsonHook_before_activate(w, i, e)
      [] cb = <<"messaging", "on", "activate">> -> MessagingRegistrationHook_on_activate(w, i, e)
      [] cb = <<"messaging", "on", "deactivate">> -> MessagingRegistrationHook_on_deactivate(w, i, e)
      [] cb = <<"exec", "before", "enable">> -> PluginExecutionStateHook_before_enable(w, i, e)
      [] cb = <<"exec", "before", "activate">> -> PluginExecutionStateHook_before_activate(w, i, e)
      [] cb = <<"exec", "on", "activate">> -> PluginExecutionStateHook_on_activate(w, i, e)
      [] cb = <<"exec", "after", "activate">> -> PluginExecutionStateHook_after_activate(w, i, e)
      [] cb = <<"exec", "on", "deactivate">> -> PluginExecutionStateHook_on_deactivate(w, i, e)
      [] cb = <<"exec", "before", "disable">> -> PluginExecutionStateHook_before_disable(w, i, e)
      [] cb = <<"exec", "before", "uninstall">> -> PluginExecutionStateHook_before_uninstall(w, i, e)
      [] OTHER -> StateHook_noop(w, i, e)

HookLoad(h, w, i, e) ==
    CASE h = "venv" -> VirtualEnvHook_load(w, i, e)
      [] h = "files" -> PluginFilesStateHook_load(w, i, e)
      [] h = "db" -> PluginDBHook_load(w, i, e)
      [] h = "messaging" -> MessagingRegistrationHook_load(w, i, e)
      [] h = "exec" -> PluginExecutionStateHook_load(w, i, e)
      [] OTHER -> StateHook_noop(w, i, e)

HookStop(h, w) ==
    IF h = "messaging" THEN MessagingRegistrationHook_stop(w) ELSE w

(* ---------------------------------------------------------------------- *)
(* PluginManager                                                           *)
(* ---------------------------------------------------------------------- *)
PluginManager_init_hooks == <<"venv", "files", "db", "json", "messaging", "exec">>

reversed(seq) == [k \in 1..Len(seq) |-> seq[Len(seq) + 1 - k]]

Logged(w, h, phase, op, i) == [w EXCEPT !.calls = Append(@, <<h, phase, op, i>>)]

(* "for hook in <order>: hook.<phase>_<op>(plugin)"; an exception raised   *)
(* by a callback ends the loop and the whole call.                         *)
RECURSIVE ForHooks(_, _, _, _, _, _)
ForHooks(order, phase, op, w, i, e) ==
    IF order = <<>> \/ w.err # NoErr THEN w
    ELSE ForHooks(Tail(order), phase, op,
                  HookCallback(Head(order), phase, op, Logged(w, Head(order), phase, op, i), i, e),
                  i, e)

(* Variant: each hook runs its three callbacks before the next hook.       *)
RECURSIVE ThreePhases_hook_by_hook(_, _, _, _, _)
ThreePhases_hook_by_hook(order, op, w, i, e) ==
    IF order = <<>> \/ w.err # NoErr THEN w
    ELSE ThreePhases_hook_by_hook(Tail(order), op,
            ForHooks(<<Head(order)>>, "after", op,
                     ForHooks(<<Head(order)>>, "on", op,
                              ForHooks(<<Head(order)>>, "before", op, w, i, e), i, e), i, e),
            i, e)

(* Variant: a failing on_<op> callback undoes what the call did so far.    *)
ThreePhases_rolling_back(order, op, w, i, e) ==
    LET b == ForHooks(order, "before", op, w, i, e)
        o == ForHooks(order, "on", op, b, i, e)
    IN  IF b.err = NoErr /\ o.err # NoErr
        THEN [w EXCEPT !.err = o.err, !.calls = o.calls, !.fx = o.fx]
        ELSE ForHooks(order, "after", op, o, i, e)

ThreePhases(order, op, w, i, e) ==
    ForHooks(order, "after", op,
             ForHooks(order, "on", op,
                      ForHooks(order, "before", op, w, i, e), i, e), i, e)

(* Variant: teardown operations walk the hooks in registration order too.  *)
OrderOf_always_forward(op, w) == w.hooks

OrderOf(op, w) ==
    IF op \in {"install", "enable", "activate"} THEN w.hooks ELSE reversed(w.hooks)

Ops == {"install", "uninstall", "enable", "disable", "activate", "deactivate"}

(* Variant: get_plugin_by_url creates the PluginState of an unknown url.   *)
ManagerCall_get_or_create(op, url, w, e) ==
    LET i == url_to_plugin_id[url]
        w0 == IF i \in DOMAIN w.ps THEN w ELSE [w EXCEPT !.ps = @ @@ (i :> PluginState(url))]
        w1 == IF op = "plugin_state" THEN w0 ELSE ThreePhases(OrderOf(op, w0), op, w0, i, e)
    IN  IF w1.err # NoErr THEN w1
        ELSE IF ~info(w1, i).returned THEN Raise(w1, "AttributeError", "installed_dir is None")
        ELSE [w1 EXCEPT !.info = info(w1, i)]

(* get_plugin_by_url, the three phases, then plugin.info().                *)
ManagerCall(op, url, w, e) ==
    LET i == url_to_plugin_id[url] IN
    IF i \notin DOMAIN w.ps THEN Raise(w, "ObjectNotFound", i)
    ELSE LET w1 == IF op = "plugin_state" THEN w ELSE ThreePhases(OrderOf(op, w), op, w, i, e) IN
         IF w1.err # NoErr THEN w1
         ELSE IF ~info(w1, i).returned THEN Raise(w1, "AttributeError", "installed_dir is None")
         ELSE [w1 EXCEPT !.info = info(w1, i)]

RECURSIVE LoadHooks(_, _, _, _)
LoadHooks(order, w, i, e) ==
    IF order = <<>> \/ w.err # NoErr THEN w
    ELSE LoadHooks(Tail(order), HookLoad(Head(order), Logged(w, Head(order), "load", "load", i), i, e), i, e)

RECURSIVE LoadPlugins(_, _, _)
LoadPlugins(ids, w, es) ==
    IF ids = <<>> \/ w.err # NoErr THEN w
    ELSE LoadPlugins(Tail(ids),
                     LoadHooks(w.hooks, w, Head(ids), es[w.ps[Head(ids)].remote_url]), es)

(* Keys of {x.plugin_id: x for x in plugins} in insertion order: each id   *)
(* once, at the place of its first occurrence.                             *)
RECURSIVE DictKeys(_)
DictKeys(ids) ==
    IF ids = <<>> THEN <<>>
    ELSE <<Head(ids)>> \o SelectSeq(DictKeys(Tail(ids)), LAMBDA j : j # Head(ids))

(* plugin_states.values() in insertion order.                              *)
StateOrder(w) ==
    SelectSeq(DictKeys([k \in 1..Len(w.listed) |-> url_to_plugin_id[w.listed[k]]]),
              LAMBDA i : i \in DOMAIN w.ps)

PluginManager_start(w, es) ==
    LET w1 == [w EXCEPT !.ps = [i \in {url_to_plugin_id[w.listed[k]] : k \in 1..Len(w.listed)} |->
                                  PluginState(CHOOSE u \in Urls : url_to_plugin_id[u] = i)]]
    IN  LoadPlugins(StateOrder(w1), w1, es)

RECURSIVE ForPlugins(_, _, _, _, _)
ForPlugins(ids, phase, op, w, e) ==
    IF ids = <<>> \/ w.err # NoErr THEN w
    ELSE ForPlugins(Tail(ids), phase, op, ForHooks(reversed(w.hooks), phase, op, w, Head(ids), e), e)

RECURSIVE StopHooks(_, _)
StopHooks(order, w) ==
    IF order = <<>> \/ w.err # NoErr THEN w
    ELSE StopHooks(Tail(order), HookStop(Head(order), Logged(w, Head(order), "stop", "stop", "")))

PluginManager_stop(w, e) ==
    StopHooks(w.hooks,
              ForPlugins(StateOrder(w), "after", "deactivate",
                         ForPlugins(StateOrder(w), "before", "deactivate", w, e), e))

(* ---------------------------------------------------------------------- *)
(* The state machine                                                       *)
(* ---------------------------------------------------------------------- *)
(* External collaborators: outcome of git clone, of pip, of the bus        *)
(* register/unregister calls and of wait_for_start.                        *)
Externals ==
    [clone : BOOLEAN, pip : BOOLEAN, reg : RegisterOutcomes, ready : BOOLEAN,
     unreg : BOOLEAN]

AllSucceed == [clone |-> TRUE, pip |-> TRUE, reg |-> "token", ready |-> TRUE, unreg |-> TRUE]

NoLast ==
    [op |-> "", url |-> "", e |-> AllSucceed, err |-> NoErr, info |-> NoInfo,
     calls |-> <<>>, fx |-> <<>>, timeouts |-> <<>>]

(* The world a manager call starts from: the current state, no exception   *)
(* raised yet, nothing called yet.                                         *)
World ==
    [ps |-> plugin_states, dirs |-> dirs, venvs |-> venvs, reqs |-> reqs, rows |-> rows,
     registered |-> registered, procs |-> procs, client |-> client, clients |-> clients,
     listed |-> listed, hooks |-> hooks,
     err |-> NoErr, calls |-> <<>>, fx |-> <<>>, timeouts |-> <<>>, info |-> NoInfo,
     capped |-> FALSE]

(* ---------------------------------------------------------------------- *)
(* Observers of two call sequences                                         *)
(* ---------------------------------------------------------------------- *)
LifecycleOps == <<"install", "enable", "activate", "deactivate", "disable", "uninstall">>

ToggleOps == <<"enable", "disable", "enable">>

ValidManifest(i) ==
    /\ RemoteRepo[i].exported_rpc_classes \subseteq VALID_CLASSES
    /\ RemoteRepo[i].required_rpc_classes \subseteq VALID_CLASSES

(* Plugin i is held by the manager and was never installed: no directory,  *)
(* no environment, no persisted record.                                    *)
NeverInstalled(w, i) ==
    /\ i \in DOMAIN w.ps
    /\ w.ps[i].installed_dir = i /\ w.ps[i].venv = i
    /\ i \notin w.dirs /\ i \notin w.venvs
    /\ ~w.ps[i].db_plugin.exists
    /\ ~\E r \in w.rows : r.app_url = w.ps[i].remote_url

InstalledNotActive(w, i) ==
    /\ i \in DOMAIN w.ps
    /\ installed(w, w.ps[i])
    /\ ~w.ps[i].active

NoProgress == [url |-> "", n |-> 0]

(* Number of calls of the sequence ops made in a row on one url, the first *)
(* of them in a state satisfying startsHere; counted is whether this call  *)
(* counts.                                                                 *)
Progress(seen, ops, op, url, counted, startsHere) ==
    IF counted /\ seen.n >= 1 /\ seen.n < Len(ops) /\ url = seen.url /\ op = ops[seen.n + 1]
    THEN [url |-> url, n |-> seen.n + 1]
    ELSE IF counted /\ startsHere /\ op = ops[1] THEN [url |-> url, n |-> 1]
    ELSE NoProgress

RoundTripOps == <<"deactivate", "activate">>

NoRoundTrip == [url |-> "", n |-> 0, state |-> PluginState(""), info |-> NoInfo]

(* The deactivate; activate pair in progress, with the PluginState and the *)
(* snapshot the plugin had before the pair.                                *)
RoundTrip(seen, op, url, counted, w) ==
    LET p == Progress([url |-> seen.url, n |-> seen.n], RoundTripOps, op, url, counted,
                      url \in Urls /\ url_to_plugin_id[url] \in DOMAIN w.ps
                          /\ w.ps[url_to_plugin_id[url]].active)
    IN  IF p.n = 1
        THEN [url |-> url, n |-> 1, state |-> w.ps[url_to_plugin_id[url]],
              info |-> info(w, url_to_plugin_id[url])]
        ELSE IF p.n = 2 THEN [seen EXCEPT !.n = 2]
        ELSE NoRoundTrip

(* The call op(url), made with collaborator outcomes e, returns (or raises) *)
(* leaving the world w.                                                     *)
(* LocalWeaveInstance.__init__: no helper, no wrapper, event not set.      *)
LocalWeaveInstance_init ==
    [registration_helper |-> NoneStr, rpc_wrapper |-> NoneStr, stopped |-> FALSE,
     waited |-> FALSE, op |-> "", err |-> NoErr]

(* What a manager call leaves behind, the instance aside.                  *)
Effects(op, url, e, w) ==
    /\ ~w.capped
    /\ w.clients <= MaxClients * Len(w.listed)
    /\ plugin_states' = w.ps
    /\ dirs' = w.dirs
    /\ venvs' = w.venvs
    /\ reqs' = w.reqs
    /\ rows' = w.rows
    /\ registered' = w.registered
    /\ procs' = w.procs
    /\ client' = w.client
    /\ clients' = w.clients
    /\ listed' = w.listed
    /\ hooks' = w.hooks
    /\ last' = [op |-> op, url |-> url, e |-> e, err |-> w.err, info |-> w.info,
                calls |-> w.calls, fx |-> w.fx, timeouts |-> w.timeouts]
    /\ lifecycle' = Progress(lifecycle, LifecycleOps, op, url, e = AllSucceed,
                             url \in Urls /\ NeverInstalled(World, url_to_plugin_id[url])
                                 /\ ValidManifest(url_to_plugin_id[url]))
    /\ toggles' = Progress(toggles, ToggleOps, op, url, TRUE,
                           url \in Urls /\ InstalledNotActive(World, url_to_plugin_id[url]))
    /\ roundtrip' = RoundTrip(roundtrip, op, url, e = AllSucceed, World)

Returns(op, url, e, w) ==
    /\ Effects(op, url, e, w)
    /\ instance' = instance

Init ==
    /\ plugin_states = << >>
    /\ dirs = {}
    /\ venvs = {}
    /\ reqs = {}
    /\ rows = {}
    /\ registered = {}
    /\ procs = {}
    /\ client = NoneStr
    /\ clients = 0
    /\ listed \in ListerResults
    /\ hooks = PluginManager_init_hooks
    /\ last = NoLast
    /\ lifecycle = NoProgress
    /\ toggles = NoProgress
    /\ roundtrip = NoRoundTrip
    /\ instance = LocalWeaveInstance_init

(* Outcomes worth distinguishing for a call whose all-succeeding run has *)
(* the side effects fx: those of the collaborators that run reaches; a     *)
(* failure only cuts the call short, so no other collaborator is reached.  *)
Outcomes(fx) ==
    LET done == {fx[k] : k \in 1..Len(fx)} IN
    [clone : IF "clone" \in done THEN BOOLEAN ELSE {TRUE},
     pip : IF "pip" \in done THEN BOOLEAN ELSE {TRUE},
     reg : IF "register" \in done THEN RegisterOutcomes ELSE {"token"},
     ready : IF "proc_start" \in done THEN BOOLEAN ELSE {TRUE},
     unreg : IF "unregister" \in done THEN BOOLEAN ELSE {TRUE}]

start ==
    \E w0 \in {World} : \E fx \in {PluginManager_start(w0, [u \in Urls |-> AllSucceed]).fx} :
        \E e \in Outcomes(fx) :
            \E w \in {PluginManager_start(w0, [u \in Urls |-> e])} : Returns("start", "", e, w)

stop == \E w \in {PluginManager_stop(World, AllSucceed)} : Returns("stop", "", AllSucceed, w)

Call(op, url) ==
    \E w0 \in {World} : \E fx \in {ManagerCall(op, url, w0, AllSucceed).fx} :
        \E e \in Outcomes(fx) :
            \E w \in {ManagerCall(op, url, w0, e)} : Returns(op, url, e, w)

install(url) == Call("install", url)

uninstall(url) == Call("uninstall", url)

enable(url) == Call("enable", url)

disable(url) == Call("disable", url)

activate(url) == Call("activate", url)

deactivate(url) == Call("deactivate", url)

plugin_state(url) == Call("plugin_state", url)

(* Urls the callers pass to the lifecycle operations: those the lister     *)
(* produces (unknown to the manager until start() has run); plugin_state   *)
(* is also asked about urls the lister never produces.                     *)
CallUrls == {listed[k] : k \in 1..Len(listed)}

Next ==
    \/ start
    \/ stop
    \/ \E url \in CallUrls : install(url)
    \/ \E url \in CallUrls : uninstall(url)
    \/ \E url \in CallUrls : enable(url)
    \/ \E url \in CallUrls : disable(url)
    \/ \E url \in CallUrls : activate(url)
    \/ \E url \in CallUrls : deactivate(url)
    \/ \E url \in Urls : plugin_state(url)

Spec == Init /\ [][Next]_vars

(* ---------------------------------------------------------------------- *)
(* The manager of several plugins through restarts, every collaborator     *)
(* succeeding: plugins are installed, enabled, activated, deactivated and  *)
(* disabled, the manager started and stopped                               *)
(* ---------------------------------------------------------------------- *)
InitMany ==
    /\ plugin_states = << >>
    /\ dirs = {}
    /\ venvs = {}
    /\ reqs = {}
    /\ rows = {}
    /\ registered = {}
    /\ procs = {}
    /\ client = NoneStr
    /\ clients = 0
    /\ listed \in ManyListerResults
    /\ hooks = PluginManager_init_hooks
    /\ last = NoLast
    /\ lifecycle = NoProgress
    /\ toggles = NoProgress
    /\ roundtrip = NoRoundTrip
    /\ instance = LocalWeaveInstance_init

startMany ==
    \E w \in {PluginManager_start(World, [u \in Urls |-> AllSucceed])} :
        Returns("start", "", AllSucceed, w)

CallMany(op, url) ==
    \E w \in {ManagerCall(op, url, World, AllSucceed)} : Returns(op, url, AllSucceed, w)

installMany(url) == CallMany("install", url)

enableMany(url) == CallMany("enable", url)

disableMany(url) == CallMany("disable", url)

activateMany(url) == CallMany("activate", url)

deactivateMany(url) == CallMany("deactivate", url)

NextMany ==
    \/ startMany
    \/ stop
    \/ \E url \in CallUrls : installMany(url)
    \/ \E url \in CallUrls : enableMany(url)
    \/ \E url \in CallUrls : disableMany(url)
    \/ \E url \in CallUrls : activateMany(url)
    \/ \E url \in CallUrls : deactivateMany(url)

SpecMany == InitMany /\ [][NextMany]_vars

(* The install, uninstall, enable and disable calls of a manager holding   *)
(* two plugins, every collaborator succeeding.                             *)
uninstallStore(url) == CallMany("uninstall", url)

NextStore ==
    \/ startMany
    \/ \E url \in CallUrls : installMany(url)
    \/ \E url \in CallUrls : uninstallStore(url)
    \/ \E url \in CallUrls : enableMany(url)
    \/ \E url \in CallUrls : disableMany(url)

SpecStore == InitMany /\ [][NextStore]_vars

(* ---------------------------------------------------------------------- *)
(* LocalWeaveInstance                                                      *)
(* ---------------------------------------------------------------------- *)
(* The methods PluginManager defines.                                      *)
PluginManager_methods ==
    {"start", "stop", "activate", "deactivate", "enable", "disable", "install", "uninstall",
     "list", "plugin_state", "get_plugin_by_url"}

(* Where the messaging plugin is installed, as PluginData.get tells it.    *)
MessagingPlugin == {"nowhere", "this machine", "another machine"}

(* LocalWeaveInstance.start() after plugin_manager.start() ended with      *)
(* manager_err: look the messaging plugin up, connect, create and start    *)
(* the registration helper, start the plugins, create the rpc wrapper.     *)
LocalWeaveInstance_start(inst, manager_err, messaging, connected, found_rpc) ==
    LET began == [inst EXCEPT !.op = "start", !.err = NoErr]
        helper == [began EXCEPT !.registration_helper = "created"]
        helped == [began EXCEPT !.registration_helper = "started"]
    IN  IF manager_err # NoErr THEN [began EXCEPT !.err = manager_err]
        ELSE IF messaging = "nowhere"
        THEN [began EXCEPT !.err = [type |-> "SystemExit", msg |-> "1"]]
        ELSE IF messaging = "this machine" /\ "load_plugin" \notin PluginManager_methods
        THEN [began EXCEPT !.err = [type |-> "AttributeError", msg |-> "load_plugin"]]
        ELSE IF ~connected
        THEN [began EXCEPT !.err = [type |-> "WeaveException", msg |-> "connect"]]
        ELSE IF ~found_rpc
        THEN [helper EXCEPT !.err = [type |-> "WeaveException", msg |-> "find_rpc"]]
        ELSE IF "start_plugins" \notin PluginManager_methods
        THEN [helped EXCEPT !.err = [type |-> "AttributeError", msg |-> "start_plugins"]]
        ELSE [helped EXCEPT !.rpc_wrapper = "started"]

(* LocalWeaveInstance.stop() up to plugin_manager.stop(): the wrapper is    *)
(* stopped when there is one, the helper's client is stopped.              *)
LocalWeaveInstance_stop_helpers(inst) ==
    LET began == [inst EXCEPT !.op = "stop", !.err = NoErr,
                              !.rpc_wrapper = IF @ = NoneStr THEN @ ELSE "stopped"]
    IN  IF inst.registration_helper = NoneStr
        THEN [began EXCEPT !.err = [type |-> "AttributeError", msg |-> "registration_helper is None"]]
        ELSE IF inst.registration_helper = "created"
        THEN [began EXCEPT !.err = [type |-> "AttributeError", msg |-> "client is None"]]
        ELSE [began EXCEPT !.registration_helper = "stopped"]

(* The rest of stop(): plugin_manager.stop() ended with manager_err, then  *)
(* self.stopped.set().                                                     *)
LocalWeaveInstance_stop_rest(inst, manager_err) ==
    IF manager_err # NoErr THEN [inst EXCEPT !.err = manager_err]
    ELSE [inst EXCEPT !.stopped = TRUE]

instance_start ==
    \E messaging \in MessagingPlugin : \E connected \in BOOLEAN : \E found_rpc \in BOOLEAN :
        \E w \in {PluginManager_start(World, [u \in Urls |-> AllSucceed])} :
            /\ Effects("start", "", AllSucceed, w)
            /\ instance' = LocalWeaveInstance_start(instance, w.err, messaging, connected,
                                                    found_rpc)

instance_stop ==
    \E inst \in {LocalWeaveInstance_stop_helpers(instance)} :
        IF inst.err # NoErr
        THEN /\ instance' = inst
             /\ UNCHANGED manager_vars
        ELSE \E w \in {PluginManager_stop(World, AllSucceed)} :
                /\ Effects("stop", "", AllSucceed, w)
                /\ instance' = LocalWeaveInstance_stop_rest(inst, w.err)

(* wait() returns once the event is set.                                   *)
instance_wait ==
    /\ instance.stopped
    /\ instance' = [instance EXCEPT !.waited = TRUE, !.op = "wait", !.err = NoErr]
    /\ UNCHANGED manager_vars

NextInstance ==
    \/ instance_start
    \/ instance_stop
    \/ instance_wait
    \/ \E url \in CallUrls : install(url)
    \/ \E url \in CallUrls : enable(url)
    \/ \E url \in CallUrls : activate(url)

SpecInstance == Init /\ [][NextInstance]_vars

(* ---------------------------------------------------------------------- *)
(* Properties                                                              *)
(* ---------------------------------------------------------------------- *)
Known(url) == url \in Urls /\ url_to_plugin_id[url] \in DOMAIN plugin_states

StateOf(url) == plugin_states[url_to_plugin_id[url]]

InstalledNow(url) == installed(World, StateOf(url))

LastFx == {last.fx[k] : k \in 1..Len(last.fx)}

Phases(calls) == {calls[k][2] : k \in 1..Len(calls)}

(* C1: in every reachable state every plugin satisfies active => enabled   *)
(* and enabled => installed.                                               *)
C1_InvariantChain ==
    \A url \in Urls : Known(url) =>
        /\ StateOf(url).active => enabled(StateOf(url))
        /\ enabled(StateOf(url)) => InstalledNow(url)

(* C2: activate(p) succeeds only if p is installed and enabled when it is  *)
(* called; otherwise it fails with PluginLoadError (not installed / not    *)
(* enabled) and leaves the plugin states, the disk, the store, the bus and *)
(* the processes unchanged.                                                *)
C2_ActivateValidates ==
    [][(last'.op = "activate" /\ Known(last'.url)) =>
          IF InstalledNow(last'.url) /\ enabled(StateOf(last'.url))
          THEN TRUE
          ELSE /\ last'.err.type = "PluginLoadError"
               /\ last'.err.msg \in {"Plugin not installed.", "Plugin is not installed.",
                                     "VirtualEnv not installed.", "Plugin is not enabled."}
               /\ UNCHANGED <<plugin_states, dirs, venvs, reqs, rows, registered, procs>>]_vars

Snapshot(i, e, a) == [returned |-> TRUE, installed |-> i, enabled |-> e, active |-> a]

LifecycleSnapshots ==
    <<Snapshot(TRUE, FALSE, FALSE), Snapshot(TRUE, TRUE, FALSE), Snapshot(TRUE, TRUE, TRUE),
      Snapshot(TRUE, TRUE, FALSE), Snapshot(TRUE, FALSE, FALSE), Snapshot(FALSE, FALSE, FALSE)>>

(* C3: for a listed, never-installed plugin with every collaborator        *)
(* succeeding, install, enable, activate, deactivate, disable, uninstall   *)
(* return the snapshots (T,F,F), (T,T,F), (T,T,T), (T,T,F), (T,F,F),       *)
(* (F,F,F) in that order.                                                  *)
C3_LifecycleSnapshots ==
    lifecycle.n >= 1 =>
        /\ last.op = LifecycleOps[lifecycle.n]
        /\ last.err = NoErr
        /\ last.info = LifecycleSnapshots[lifecycle.n]

C3_Witness ==
    /\ lifecycle.n = 6
    /\ last.op = "uninstall"
    /\ last.info = Snapshot(FALSE, FALSE, FALSE)

(* C4: if a before_<op> callback fails, no on_<op> and no after_<op>       *)
(* callback of any hook has been invoked for that call.                    *)
C4_ValidationFirst ==
    (/\ last.op \in Ops
     /\ last.err # NoErr
     /\ last.calls # <<>>
     /\ last.calls[Len(last.calls)][2] = "before")
        => Phases(last.calls) = {"before"}

C4_Witness ==
    /\ last.op = "activate"
    /\ last.err.msg = "Plugin is not enabled."
    /\ Len(last.calls) = 6
    /\ Phases(last.calls) = {"before"}

RegistrationOrder == <<"venv", "files", "db", "json", "messaging", "exec">>

ReverseRegistrationOrder == <<"exec", "messaging", "json", "db", "files", "venv">>

(* The callbacks a complete call of op on plugin i makes, in order.        *)
FullCallLog(op, i) ==
    LET order == IF op \in {"install", "enable", "activate"}
                 THEN RegistrationOrder ELSE ReverseRegistrationOrder
    IN  [k \in 1..18 |-> <<order[((k - 1) % 6) + 1],
                           <<"before", "on", "after">>[((k - 1) \div 6) + 1], op, i>>]

(* C5: in each phase of install, enable and activate the hooks are called  *)
(* in registration order, in each phase of uninstall, disable and          *)
(* deactivate in the reverse order; the hook list is never changed.        *)
C5_HookOrder ==
    /\ hooks = RegistrationOrder
    /\ (last.op \in Ops /\ last.calls # <<>>) =>
          /\ Len(last.calls) <= 18
          /\ last.calls = SubSeq(FullCallLog(last.op, url_to_plugin_id[last.url]),
                                 1, Len(last.calls))
          /\ last.err = NoErr => Len(last.calls) = 18

C5_Witness ==
    /\ last.op = "deactivate"
    /\ last.err = NoErr
    /\ Len(last.calls) = 18
    /\ last.calls[1][1] = "exec"
    /\ last.calls[18][1] = "venv"

(* C6: install on an already installed plugin performs no source fetch, no *)
(* environment provisioning and no change to the persisted record, and     *)
(* returns a snapshot equal to the one before the call.                    *)
C6_InstallIdempotent ==
    [][(last'.op = "install" /\ Known(last'.url) /\ InstalledNow(last'.url)) =>
          /\ \A k \in 1..Len(last'.fx) :
                last'.fx[k] \notin {"clone", "clone_failed", "rmtree_dir", "venv_create",
                                    "pip", "pip_failed", "db_insert", "db_update", "db_delete"}
          /\ rows' = rows
          /\ last'.err = NoErr
          /\ last'.info = info(World, url_to_plugin_id[last'.url])]_vars

(* C7: uninstall fails with a validation error whenever the plugin is      *)
(* active (must be stopped first) or enabled (must disable first), the     *)
(* active check taking precedence; the installed directory, the dependency *)
(* environment and the persisted record are then left untouched.           *)
C7_UninstallRefused ==
    [][(/\ last'.op = "uninstall"
        /\ Known(last'.url)
        /\ (StateOf(last'.url).active \/ enabled(StateOf(last'.url)))) =>
          /\ last'.err = [type |-> "PluginLoadError",
                          msg |-> IF StateOf(last'.url).active
                                  THEN "Plugin must be stopped first."
                                  ELSE "Must disable the plugin first."]
          /\ UNCHANGED <<dirs, venvs, reqs, rows>>
          /\ plugin_states'[url_to_plugin_id[last'.url]].db_plugin = StateOf(last'.url).db_plugin]_vars

C7_Witness ==
    /\ last.op = "uninstall"
    /\ last.err.msg = "Plugin must be stopped first."
    /\ Known(last.url)
    /\ StateOf(last.url).active /\ enabled(StateOf(last.url))
    /\ InstalledNow(last.url)
    /\ \E r \in rows : r.app_url = last.url

C9_InstallCleansUp ==
    (last.op = "install" /\ LastFx \cap {"clone_failed", "pip_failed"} # {}) =>
        /\ last.err # NoErr
        /\ url_to_plugin_id[last.url] \notin dirs
        /\ url_to_plugin_id[last.url] \notin venvs

C11_RoundTrip ==
    /\ roundtrip.n >= 1 => last.err = NoErr
    /\ roundtrip.n = 2 =>
          /\ last.info = roundtrip.info
          /\ [StateOf(roundtrip.url) EXCEPT !.token = roundtrip.state.token,
                                            !.service = roundtrip.state.service]
                = roundtrip.state

ListedIds == {url_to_plugin_id[listed[k]] : k \in 1..Len(listed)}

RecordEnabled(i) == \E r \in rows : r.app_url = plugin_states[i].remote_url /\ r.enabled

Running(i) == {pr \in procs : pr.plugin = i}

Count(seq, x) == Cardinality({k \in 1..Len(seq) : seq[k] = x})

(* C12: after start() has returned there is one PluginState per distinct   *)
(* listed plugin id, each loaded once; every installed plugin whose        *)
(* persisted record is enabled is active, holds a token, was registered    *)
(* once and has a running process; every plugin without an enabled         *)
(* persisted record is not active, has no token and no process.            *)
C12_StartRecovers ==
    (last.op = "start" /\ last.err = NoErr) =>
        /\ DOMAIN plugin_states = ListedIds
        /\ Len(last.calls) = 6 * Cardinality(ListedIds)
        /\ Count(last.fx, "register") = Cardinality({i \in ListedIds : RecordEnabled(i)})
        /\ \A i \in ListedIds :
              IF RecordEnabled(i)
              THEN installed(World, plugin_states[i]) =>
                      /\ plugin_states[i].active
                      /\ plugin_states[i].token \notin {NoneStr, BlankToken}
                      /\ plugin_states[i].remote_url \in registered
                      /\ [pid |-> plugin_states[i].service, plugin |-> i] \in procs
              ELSE /\ ~plugin_states[i].active
                   /\ plugin_states[i].token = NoneStr
                   /\ plugin_states[i].service = 0
                   /\ Running(i) = {}

(* The shutdown signal of one phase: for every plugin state in turn, the   *)
(* callback of that phase on every hook in reverse registration order.     *)
StopSignal(phase, ids) ==
    [k \in 1..(6 * Len(ids)) |->
        <<ReverseRegistrationOrder[((k - 1) % 6) + 1], phase, "deactivate",
          ids[((k - 1) \div 6) + 1]>>]

HookStops == [k \in 1..6 |-> <<RegistrationOrder[k], "stop", "stop", "">>]

(* C13: stop() calls before_deactivate on every hook in reverse order for  *)
(* every plugin state, then after_deactivate likewise, never               *)
(* on_deactivate, and then stop() once on each hook; no process is         *)
(* stopped, nothing is unregistered and no PluginState changes.            *)
C13_StopSignalsOnly ==
    [][last'.op = "stop" =>
          /\ last'.calls = StopSignal("before", StateOrder(World))
                               \o StopSignal("after", StateOrder(World)) \o HookStops
          /\ UNCHANGED <<plugin_states, procs, registered>>]_vars

AllOps == Ops \cup {"plugin_state"}

(* C15: install, uninstall, enable, disable, activate, deactivate and      *)
(* plugin_state on a url whose id is not a key of plugin_states fail with  *)
(* ObjectNotFound before any hook callback is invoked and change nothing.  *)
C15_UnknownUrl ==
    [][(last'.op \in AllOps /\ ~Known(last'.url)) =>
          /\ last'.err = [type |-> "ObjectNotFound", msg |-> url_to_plugin_id[last'.url]]
          /\ last'.calls = <<>>
          /\ last'.fx = <<>>
          /\ UNCHANGED <<plugin_states, dirs, venvs, reqs, rows, registered, procs,
                         client, clients, hooks>>]_vars

C15_Witness ==
    /\ last.op = "install"
    /\ last.err.type = "ObjectNotFound"
    /\ last.calls = <<>>
    /\ ~Known(last.url)

(* C16 as stated: plugin_state on a url the manager has not seen creates   *)
(* its PluginState and returns installed, enabled and active all false.    *)
C16_CreatedOnFirstResolution ==
    [][(last'.op = "plugin_state" /\ ~Known(last'.url)) =>
          /\ last'.err = NoErr
          /\ last'.info = Snapshot(FALSE, FALSE, FALSE)
          /\ url_to_plugin_id[last'.url] \in DOMAIN plugin_states']_vars

(* Nothing of the plugin behind url exists on disk or in the store.        *)
NothingInstalled(url) ==
    /\ url_to_plugin_id[url] \notin dirs \cup venvs
    /\ ~\E r \in rows : r.app_url = url

(* C16 amended: once start() has completed, plugin_state on a listed       *)
(* plugin that was never installed returns installed, enabled and active   *)
(* all false; a PluginState exists only for the ids start() built from the *)
(* lister's results, and plugin_state on any other url fails with          *)
(* ObjectNotFound and creates none.                                        *)
C16_UnseenUrl ==
    [][last'.op = "plugin_state" =>
          /\ DOMAIN plugin_states' = DOMAIN plugin_states
          /\ DOMAIN plugin_states \subseteq ListedIds
          /\ IF ~Known(last'.url) THEN last'.err.type = "ObjectNotFound"
             ELSE (NothingInstalled(last'.url) /\ ~StateOf(last'.url).db_plugin.exists) =>
                     /\ last'.err = NoErr
                     /\ last'.info = Snapshot(FALSE, FALSE, FALSE)]_vars

C16_Witness ==
    /\ last.op = "plugin_state"
    /\ last.err = NoErr
    /\ last.info = Snapshot(FALSE, FALSE, FALSE)
    /\ NeverInstalled(World, url_to_plugin_id[last.url])

C16_WitnessUnlisted ==
    /\ last.op = "plugin_state"
    /\ last.url = "u2"
    /\ plugin_states # << >>

(* C17: disable on an active plugin fails with "Plugin must be stopped     *)
(* first." and the enabled flag is left as it was in memory and in the     *)
(* store.                                                                  *)
C17_DisableRefusedWhileActive ==
    [][(last'.op = "disable" /\ Known(last'.url) /\ StateOf(last'.url).active) =>
          /\ last'.err = [type |-> "PluginLoadError", msg |-> "Plugin must be stopped first."]
          /\ plugin_states' = plugin_states
          /\ rows' = rows]_vars

C17_Witness ==
    /\ last.op = "disable"
    /\ last.err.msg = "Plugin must be stopped first."
    /\ StateOf(last.url).active
    /\ enabled(StateOf(last.url))
    /\ \E r \in rows : r.app_url = last.url /\ r.enabled

(* C18: enable succeeds only on an installed plugin; when the environment  *)
(* or the directory is missing it fails with PluginLoadError and neither   *)
(* the in-memory record nor the stored row is modified.                    *)
C18_EnableRequiresInstalled ==
    [][(last'.op = "enable" /\ Known(last'.url) /\ ~InstalledNow(last'.url)) =>
          /\ last'.err = [type |-> "PluginLoadError",
                          msg |-> IF StateOf(last'.url).venv \notin venvs
                                  THEN "VirtualEnv not installed."
                                  ELSE "Plugin not installed."]
          /\ plugin_states' = plugin_states
          /\ rows' = rows]_vars

C18_Witness ==
    /\ last.op = "enable"
    /\ last.err.msg = "Plugin not installed."
    /\ StateOf(last.url).venv \in venvs
    /\ StateOf(last.url).installed_dir \notin dirs
    /\ \E r \in rows : r.app_url = last.url /\ ~r.enabled

(* The process of an activate call was started and was not ready in time.  *)
NotReady(l) == l.op = "activate" /\ l.e.reg = "token" /\ ~l.e.ready

(* C19: when the process of a non-active plugin is not ready in time,      *)
(* activate fails with "Unable to start the plugin." after one start       *)
(* attempt, the process is stopped, active stays false and no handle is    *)
(* stored; an activate repeated with every collaborator succeeding         *)
(* succeeds.                                                               *)
C19_StartTimeout ==
    [][/\ (NotReady(last') /\ Known(last'.url) /\ ~StateOf(last'.url).active) =>
             /\ last'.err = [type |-> "PluginLoadError", msg |-> "Unable to start the plugin."]
             /\ Count(last'.fx, "proc_start") = 1
             /\ procs' = procs
             /\ ~plugin_states'[url_to_plugin_id[last'.url]].active
             /\ plugin_states'[url_to_plugin_id[last'.url]].service = StateOf(last'.url).service
       /\ (/\ NotReady(last) /\ last.err.msg = "Unable to start the plugin."
           /\ last'.op = "activate" /\ last'.url = last.url /\ last'.e = AllSucceed) =>
             /\ last'.err = NoErr
             /\ last'.info.active]_vars

C19_Witness ==
    /\ NotReady(last)
    /\ last.err.msg = "Unable to start the plugin."
    /\ Count(last.fx, "proc_start") = 1
    /\ Running(url_to_plugin_id[last.url]) = {}
    /\ ~StateOf(last.url).active

(* C20: when register_plugin fails during activate of a non-active plugin  *)
(* the error reaches the caller, the token is unset, no process is started *)
(* and active stays false.                                                 *)
C20_RegistrationFailure ==
    [][(/\ last'.op = "activate" /\ last'.e.reg = "FAIL"
        /\ Known(last'.url) /\ ~StateOf(last'.url).active) =>
          /\ last'.err.type = "RPCError"
          /\ plugin_states'[url_to_plugin_id[last'.url]].token = NoneStr
          /\ Count(last'.fx, "proc_start") = 0
          /\ procs' = procs
          /\ ~plugin_states'[url_to_plugin_id[last'.url]].active]_vars

HookNames == {hooks[k] : k \in 1..Len(hooks)}

(* The world left by one before_<op> callback, what it raised and what it  *)
(* only read set aside.                                                    *)
AfterBefore(h, op, i) ==
    [HookCallback(h, "before", op, World, i, AllSucceed) EXCEPT !.err = NoErr, !.fx = <<>>,
                                                               !.calls = <<>>]

(* C21: no before_<op> callback of any hook changes a field of the         *)
(* PluginState or any external state, whether it succeeds or fails.        *)
C21_BeforeIsPure ==
    \A h \in HookNames : \A op \in Ops : \A i \in DOMAIN plugin_states :
        AfterBefore(h, op, i) = World

C24_RequirementsProvisioned ==
    [][(/\ last'.op = "install" /\ last'.err = NoErr /\ last'.e = AllSucceed
        /\ last'.url \in Urls
        /\ NeverInstalled(World, url_to_plugin_id[last'.url])
        /\ RemoteRepo[url_to_plugin_id[last'.url]].requirements) =>
          url_to_plugin_id[last'.url] \in reqs']_vars

TypedErrors == {"ObjectNotFound", "PluginLoadError", "InternalError"}

(* C27: every lifecycle operation that fails fails with ObjectNotFound,    *)
(* PluginLoadError or InternalError.                                       *)
C27_TypedErrors ==
    (last.op \in Ops /\ last.err # NoErr) => last.err.type \in TypedErrors

(* C23: activate on a plugin that is already active, every collaborator    *)
(* succeeding, succeeds and returns installed, enabled and active all true *)
(* as the first activation did.                                            *)
C23_ActivateWhileActive ==
    [][(/\ last'.op = "activate" /\ last'.e = AllSucceed
        /\ Known(last'.url) /\ StateOf(last'.url).active) =>
          /\ last'.err = NoErr
          /\ last'.info = Snapshot(TRUE, TRUE, TRUE)]_vars

(* The timeout plugin.json of plugin i declares, 30 when it declares none. *)
DeclaredTimeout(i) == load_plugin_json(i).start_timeout

(* Position of the first occurrence of x in seq, 0 when there is none.     *)
FirstAt(seq, x) ==
    IF \E k \in 1..Len(seq) : seq[k] = x
    THEN CHOOSE k \in 1..Len(seq) : seq[k] = x /\ \A m \in 1..(k - 1) : seq[m] # x
    ELSE 0

(* C25: in every call that makes a plugin active, by activate or by the    *)
(* re-activation of start(), the manifest is parsed and validated before   *)
(* the process is started and the process is started with the timeout the  *)
(* manifest declares (30 when it declares none).                           *)
C25_ManifestBeforeStart ==
    (last.op \in {"activate", "start"} /\ last.err = NoErr /\ last.timeouts # <<>>) =>
        /\ FirstAt(last.fx, "parse_manifest") >= 1
        /\ FirstAt(last.fx, "parse_manifest") < FirstAt(last.fx, "proc_start")
        /\ \A i \in DOMAIN plugin_states :
              plugin_states[i].active => ValidManifest(i)
        /\ \A k \in 1..Len(last.timeouts) :
              \E i \in DOMAIN plugin_states : last.timeouts[k] = DeclaredTimeout(i)

(* The capability names plugin.json of plugin i exports or requires that   *)
(* are outside VALID_CLASSES.                                              *)
OffendingNames(i) ==
    (RemoteRepo[i].exported_rpc_classes \cup RemoteRepo[i].required_rpc_classes)
        \ VALID_CLASSES

(* The capability names the text of a PluginLoadError carries: the two     *)
(* validation errors are raised with fixed texts, the offending names are  *)
(* passed to logger.warning only.                                          *)
ErrorNames(msg) ==
    IF msg \in {"Invalid rpc_class exported.", "Invalid dependencies."} THEN {} ELSE {}

(* C26: activate on a plugin that is not active and whose manifest names a *)
(* capability outside VALID_CLASSES fails with an error listing the        *)
(* offending names, before any registration or process start; the plugin   *)
(* stays inactive and no token is stored.                                  *)
C26_InvalidNamesReported ==
    [][(/\ last'.op = "activate" /\ Known(last'.url)
        /\ ~StateOf(last'.url).active
        /\ Count(last'.fx, "parse_manifest") > 0
        /\ ~ValidManifest(url_to_plugin_id[last'.url])) =>
          /\ last'.err.type = "PluginLoadError"
          /\ ErrorNames(last'.err.msg) = OffendingNames(url_to_plugin_id[last'.url])
          /\ Count(last'.fx, "register") = 0
          /\ Count(last'.fx, "proc_start") = 0
          /\ ~plugin_states'[url_to_plugin_id[last'.url]].active
          /\ plugin_states'[url_to_plugin_id[last'.url]].token
                = plugin_states[url_to_plugin_id[last'.url]].token]_vars

(* The call recorded in l failed in an on_<op> callback.                   *)
FailedInOn(l) ==
    /\ l.err # NoErr
    /\ l.calls # <<>>
    /\ l.calls[Len(l.calls)][2] = "on"

(* The world after the before and on loops of op on plugin i.              *)
AfterOn(op, i, e) ==
    ForHooks(OrderOf(op, World), "on", op,
             ForHooks(OrderOf(op, World), "before", op, World, i, e), i, e)

(* C30: when an on_<op> callback of enable, disable, activate, deactivate  *)
(* or uninstall fails, what the on_<op> callbacks before it did stays in   *)
(* place, no later on_<op> and no after_<op> is called, and the caller     *)
(* receives the error.                                                     *)
C30_NoRollback ==
    [][(/\ last'.op \in {"enable", "disable", "activate", "deactivate", "uninstall"}
        /\ FailedInOn(last')) =>
          LET i == url_to_plugin_id[last'.url]
              w == AfterOn(last'.op, i, last'.e)
          IN  /\ last'.calls = SubSeq(FullCallLog(last'.op, i), 1, Len(last'.calls))
              /\ "after" \notin Phases(last'.calls)
              /\ last'.err = w.err
              /\ last'.info = NoInfo
              /\ plugin_states' = w.ps /\ dirs' = w.dirs /\ venvs' = w.venvs
              /\ rows' = w.rows /\ registered' = w.registered /\ procs' = w.procs
              /\ (last'.op = "activate" /\ Count(last'.fx, "register") = 1) =>
                    /\ last'.url \in registered'
                    /\ last'.e.reg = "token" => plugin_states'[i].token # NoneStr
                    /\ last'.e.reg # "token" => plugin_states'[i].token = last'.e.reg
              /\ (last'.op = "deactivate" /\ Count(last'.fx, "proc_stop") = 1) =>
                    /\ ~plugin_states'[i].active
                    /\ ~\E p \in procs' \ procs : TRUE]_vars

(* activate failed in the on_activate of the last hook after the           *)
(* registration hook had stored the token.                                 *)
C30_Witness ==
    /\ last.op = "activate"
    /\ FailedInOn(last)
    /\ last.calls[Len(last.calls)][1] = "exec"
    /\ Count(last.fx, "register") = 1
    /\ last.url \in registered
    /\ StateOf(last.url).token # NoneStr

(* What belongs to plugin q in the world w: its PluginState, its           *)
(* directory, its environment, its persisted record, its registration and  *)
(* its processes.                                                          *)
Owned(w, q) ==
    [state |-> w.ps[q],
     files |-> q \in w.dirs,
     environment |-> <<q \in w.venvs, q \in w.reqs>>,
     record |-> {r \in w.rows : r.app_url = w.ps[q].remote_url},
     registration |-> w.ps[q].remote_url \in w.registered,
     process |-> {p \in w.procs : p.plugin = q}]

WorldAfter ==
    [ps |-> plugin_states', dirs |-> dirs', venvs |-> venvs', reqs |-> reqs', rows |-> rows',
     registered |-> registered', procs |-> procs']

C29_StopAlwaysSignals ==
    [][/\ instance'.op = "stop" => instance'.stopped
       /\ instance.stopped => instance'.stopped]_vars

(* The server's answer to register_plugin was no usable token.             *)
NoToken(l) == l.e.reg \in {BlankToken, NoneStr}

(* The call recorded in l got to on_activate of the execution hook if its  *)
(* registration succeeded: an activate (every before_activate has passed   *)
(* by then), or a start() of installed plugins (the hook's load calls      *)
(* before_activate first).                                                 *)
ReachedExecution(l) ==
    \/ l.op = "activate"
    \/ /\ l.op = "start"
       /\ \A i \in DOMAIN plugin_states : installed(World, plugin_states[i])

(* C31: a process is started only after the registration of the same call  *)
(* has stored a non-blank token; with a missing or blank token the         *)
(* execution hook fails with InternalError and starts no process; on       *)
(* deactivate the process is stopped before the plugin is unregistered.    *)
C31_TokenBeforeProcess ==
    /\ (last.op \in {"activate", "start"} /\ Count(last.fx, "proc_start") > 0) =>
          /\ FirstAt(last.fx, "register") >= 1
          /\ FirstAt(last.fx, "register") < FirstAt(last.fx, "proc_start")
          /\ \A i \in DOMAIN plugin_states :
                plugin_states[i].token \notin {NoneStr, BlankToken}
    /\ (ReachedExecution(last) /\ Count(last.fx, "register") > 0 /\ NoToken(last)) =>
          /\ last.err = [type |-> "InternalError",
                         msg |-> "Not registered with messaging server."]
          /\ Count(last.fx, "proc_start") = 0
    /\ (last.op = "deactivate"
          /\ Count(last.fx, "unregister") + Count(last.fx, "unregister_failed") > 0) =>
          /\ FirstAt(last.fx, "proc_stop") >= 1
          /\ FirstAt(last.fx, "proc_stop")
                < FirstAt(last.fx, "unregister") + FirstAt(last.fx, "unregister_failed")

(* An activation that registered, got a blank token and was refused.       *)
C31_Witness ==
    /\ last.op = "activate"
    /\ Count(last.fx, "register") = 1
    /\ last.e.reg = BlankToken
    /\ last.err.type = "InternalError"

(* A deactivation that stopped the process and then unregistered.          *)
C31_WitnessDeactivate ==
    /\ last.op = "deactivate"
    /\ last.err = NoErr
    /\ Count(last.fx, "proc_stop") = 1
    /\ Count(last.fx, "unregister") = 1

(* The world with the record of calls and effects emptied.                 *)
Quiet == [World EXCEPT !.fx = <<>>, !.calls = <<>>, !.err = NoErr]

(* C32: install() on a provisioned environment creates nothing, changes    *)
(* nothing and returns True again; after clean() is_installed() is false;  *)
(* clean() on an absent environment changes nothing and raises nothing.    *)
C32_EnvironmentIdempotent ==
    \A v \in PluginIds : \A requirements \in BOOLEAN :
        LET once == VirtualEnvManager_install(Quiet, v, requirements, AllSucceed)
            twice == VirtualEnvManager_install([once EXCEPT !.fx = <<>>], v, requirements,
                                               AllSucceed)
            cleaned == VirtualEnvManager_clean(Quiet, v)
        IN  /\ v \in once.venvs
            /\ Count(twice.fx, "venv_create") = 0
            /\ [twice EXCEPT !.fx = <<>>] = [once EXCEPT !.fx = <<>>]
            /\ VirtualEnvManager_install_returns(requirements, AllSucceed)
            /\ \A e \in Externals : VirtualEnvManager_install_returns(FALSE, e)
            /\ (v \in venvs /\ ~requirements) =>
                  VirtualEnvManager_install(Quiet, v, requirements, AllSucceed) = Quiet
            /\ v \notin cleaned.venvs
            /\ cleaned.err = NoErr
            /\ v \notin venvs => cleaned = Quiet
            /\ VirtualEnvManager_clean([cleaned EXCEPT !.fx = <<>>], v)
                  = [cleaned EXCEPT !.fx = <<>>]

(* install was called by the manager on an environment that existed: it   *)
(* was not created again and its requirements are still there.            *)
C32_Witness ==
    /\ last.op = "install"
    /\ Count(last.fx, "venv_create") = 0
    /\ Count(last.fx, "pip") = 1
    /\ url_to_plugin_id[last.url] \in venvs
    /\ url_to_plugin_id[last.url] \in reqs

(* C33: each plugin has at most one running supervised process, and every  *)
(* running process is the one its plugin's PluginState.service refers to.  *)
C33_NoOrphanProcess ==
    /\ \A i \in PluginIds : Cardinality({p \in procs : p.plugin = i}) <= 1
    /\ \A p \in procs :
          /\ p.plugin \in DOMAIN plugin_states
          /\ plugin_states[p.plugin].service = p.pid

(* The enabled flag the store holds for url, false when it holds no record. *)
StoredEnabled(url) == \E r \in rows : r.app_url = url /\ r.enabled

(* C34: after every manager operation the in-memory enabled of each plugin *)
(* equals the enabled flag of the record stored for its url (false when    *)
(* no record is stored).                                                   *)
C34_EnabledMatchesStore ==
    \A url \in Urls : Known(url) =>
        enabled(StateOf(url)) = StoredEnabled(url)

C36_InactiveHoldsNothing ==
    \A url \in Urls : (Known(url) /\ ~StateOf(url).active) =>
        /\ StateOf(url).token = NoneStr
        /\ url \notin registered
        /\ Running(url_to_plugin_id[url]) = {}

(* C37: a stop() that follows a successful start() ends without error and  *)
(* leaves none of the rpc clients the registration hook started running.   *)
C37_ClientsStopped ==
    [][(last.op = "start" /\ last.err = NoErr /\ last'.op = "stop") =>
          /\ last'.err = NoErr
          /\ clients' = 0]_vars

(* Entries a call added to sys.path less the entries it removed.           *)
PathChange(fx) == Count(fx, "path_append") - Count(fx, "path_pop")

(* C38: load_plugin_json, with or without service loading, whether it      *)
(* succeeds or fails, leaves sys.path with the entries it had; so does     *)
(* every activate.                                                         *)
C38_SearchPathUnchanged ==
    /\ PathChange(last.fx) = 0
    /\ \A d \in PluginIds : \A load_service \in BOOLEAN :
          PathChange(load_plugin_json_path(Quiet, d, load_service).fx) = 0

====
